---- MODULE Spec2Model ----
(***************************************************************************)
(* A model of code/crawler/recursive_crawler.py: a breadth-first crawl of   *)
(* https://www.gov.za that saves the prose of content pages and follows the *)
(* in-region links of navigation pages.                                     *)
(*                                                                          *)
(* Text is a sequence of one-character strings, so that the string          *)
(* functions of the program (re.sub, strip, startswith, split, urljoin)     *)
(* are computed and not assumed.                                            *)
(***************************************************************************)
EXTENDS Integers, Sequences, FiniteSets, TLC

(***************************************************************************)
(* Text helpers                                                             *)
(***************************************************************************)

\* str.strip() and the regex class \s: the ASCII white space characters
Whitespace == {" ", "\t", "\n", "\r", "\f"}

\* n copies of the character c
Rep(c, n) == [i \in 1..n |-> c]

\* s.startswith(prefix)
StartsWith(s, prefix) ==
    /\ Len(prefix) <= Len(s)
    /\ SubSeq(s, 1, Len(prefix)) = prefix

\* the index of the first non-white-space character of s (Len(s)+1 if none)
FirstInk(s) ==
    IF \A i \in 1..Len(s) : s[i] \in Whitespace THEN Len(s) + 1
    ELSE CHOOSE i \in 1..Len(s) :
            /\ s[i] \notin Whitespace
            /\ \A j \in 1..(i - 1) : s[j] \in Whitespace

\* the index of the last non-white-space character of s (0 if none)
LastInk(s) ==
    IF \A i \in 1..Len(s) : s[i] \in Whitespace THEN 0
    ELSE CHOOSE i \in 1..Len(s) :
            /\ s[i] \notin Whitespace
            /\ \A j \in (i + 1)..Len(s) : s[j] \in Whitespace

\* str.strip()
Strip(s) == SubSeq(s, FirstInk(s), LastInk(s))

\* sep.join(parts)
RECURSIVE Join(_, _)
Join(sep, parts) ==
    IF parts = <<>> THEN <<>>
    ELSE IF Len(parts) = 1 THEN parts[1]
    ELSE parts[1] \o sep \o Join(sep, Tail(parts))

\* the concatenation of a sequence of texts
Concat(parts) == Join(<<>>, parts)

\* the sum of a sequence of numbers
RECURSIVE Sum(_)
Sum(ns) == IF ns = <<>> THEN 0 ELSE ns[1] + Sum(Tail(ns))

\* the index of the last occurrence of the character c in s up to i (0 if none)
RECURSIVE LastIndexOf(_, _, _)
LastIndexOf(s, c, i) ==
    IF i < 1 THEN 0
    ELSE IF s[i] = c THEN i ELSE LastIndexOf(s, c, i - 1)

\* the index of the k-th occurrence of the character c in s from i on (0 if none)
RECURSIVE IndexOfNth(_, _, _, _)
IndexOfNth(s, c, k, i) ==
    IF i > Len(s) THEN 0
    ELSE IF s[i] = c
         THEN IF k = 1 THEN i ELSE IndexOfNth(s, c, k - 1, i + 1)
         ELSE IndexOfNth(s, c, k, i + 1)

\* s.split('/')[-1]
LastSegment(s) == SubSeq(s, LastIndexOf(s, "/", Len(s)) + 1, Len(s))

LowerLetters == <<"a","b","c","d","e","f","g","h","i","j","k","l","m",
                  "n","o","p","q","r","s","t","u","v","w","x","y","z">>
UpperLetters == <<"A","B","C","D","E","F","G","H","I","J","K","L","M",
                  "N","O","P","Q","R","S","T","U","V","W","X","Y","Z">>

IsLetter(c) == \E i \in 1..Len(LowerLetters) : c = LowerLetters[i] \/ c = UpperLetters[i]

ToUpper(c) ==
    IF \E i \in 1..Len(LowerLetters) : c = LowerLetters[i]
    THEN UpperLetters[CHOOSE i \in 1..Len(LowerLetters) : c = LowerLetters[i]]
    ELSE c

ToLower(c) ==
    IF \E i \in 1..Len(UpperLetters) : c = UpperLetters[i]
    THEN LowerLetters[CHOOSE i \in 1..Len(UpperLetters) : c = UpperLetters[i]]
    ELSE c

\* str.title(): a letter that follows a non-letter is upper case, any other letter lower case
TitleCase(s) ==
    [i \in 1..Len(s) |->
        IF i = 1 \/ ~IsLetter(s[i - 1]) THEN ToUpper(s[i]) ELSE ToLower(s[i])]

\* s.replace(old, new) for single characters
ReplaceChar(s, old, new) == [i \in 1..Len(s) |-> IF s[i] = old THEN new ELSE s[i]]

\* the elements of a sequence, and whether it holds one twice
Range(s) == {s[i] : i \in 1..Len(s)}
NoDuplicates(s) == \A i, j \in 1..Len(s) : i # j => s[i] # s[j]

(***************************************************************************)
(* clean_filename                                                           *)
(***************************************************************************)

\* the length a file name's stem is cut to
MaxStem == 100

\* the character class [\\/*?:"<>|]
InvalidChars == {"\\", "/", "*", "?", ":", "\"", "<", ">", "|"}

\* the character class [\s-]
SpaceOrDash == Whitespace \cup {"-"}

\* re.sub(r'[\\/*?:"<>|]', "", text)
RemoveInvalid(text) == SelectSeq(text, LAMBDA c : c \notin InvalidChars)

\* re.sub(r'[\s-]+', "_", s): every maximal run of white space and dashes becomes
\* one "_": the first character of a run is replaced, the others are dropped
CollapseRuns(s) ==
    LET kept == [i \in 1..Len(s) |->
                    IF s[i] \notin SpaceOrDash THEN s[i]
                    ELSE IF i > 1 /\ s[i - 1] \in SpaceOrDash THEN "" ELSE "_"]
    IN  SelectSeq(kept, LAMBDA c : c # "")

\* a clean_filename that does not cut
Truncate_None(s) == s

\* filename[:100] when it is longer than 100
Truncate(s) == IF Len(s) > MaxStem THEN SubSeq(s, 1, MaxStem) ELSE s

TxtExtension == <<".","t","x","t">>

clean_filename(text) ==
    Truncate(CollapseRuns(RemoveInvalid(text))) \o TxtExtension

(***************************************************************************)
(* URLs                                                                     *)
(***************************************************************************)

\* base_url = 'https://www.gov.za'
base_url == <<"h","t","t","p","s",":","/","/","w","w","w",".","g","o","v",".","z","a">>

\* 'https://www.gov.za/services-residents', the root URL of the crawl
SeedURL == base_url \o <<"/","s","e","r","v","i","c","e","s","-","r","e","s","i","d","e","n","t","s">>

\* the index of the first character of s from i on that is in cs (0 if none)
RECURSIVE FirstOf(_, _, _)
FirstOf(s, cs, i) ==
    IF i > Len(s) THEN 0
    ELSE IF s[i] \in cs THEN i ELSE FirstOf(s, cs, i + 1)

\* whether a reference begins with a scheme: letters, then ":" before any of / ? #
HasScheme(ref) ==
    LET k == FirstOf(ref, {":", "/", "?", "#"}, 1)
    IN  /\ k > 1
        /\ ref[k] = ":"
        /\ \A i \in 1..(k - 1) : IsLetter(ref[i])

\* the scheme of an absolute URL, without its ":"
SchemeOf(u) == SubSeq(u, 1, FirstOf(u, {":"}, 1) - 1)

\* scheme://netloc of an absolute URL: all that precedes its third "/"
OriginOf(u) ==
    LET k == IndexOfNth(u, "/", 3, 1)
    IN  IF k = 0 THEN u ELSE SubSeq(u, 1, k - 1)

\* the path of an absolute URL: from its third "/" up to its query or fragment
PathOf(u) ==
    LET k == IndexOfNth(u, "/", 3, 1)
        e == IF k = 0 THEN 0 ELSE FirstOf(u, {"?", "#"}, k)
    IN  IF k = 0 THEN <<>>
        ELSE IF e = 0 THEN SubSeq(u, k, Len(u)) ELSE SubSeq(u, k, e - 1)

\* the path of the base up to and with its last "/" ("/" when the base has no path)
DirOf(u) ==
    LET path == PathOf(u)
    IN  IF path = <<>> THEN <<"/">>
        ELSE SubSeq(path, 1, LastIndexOf(path, "/", Len(path)))

\* urllib.parse.urljoin(base, url), for an absolute http(s) base and a reference
\* that is empty, absolute (scheme and netloc), network-path (//host/..),
\* absolute-path (/..), query-only (?..) or a relative path without dot segments
urljoin(base, url) ==
    IF url = <<>> THEN base
    ELSE IF HasScheme(url) THEN url
    ELSE IF StartsWith(url, <<"/","/">>) THEN SchemeOf(base) \o <<":">> \o url
    ELSE IF url[1] = "/" THEN OriginOf(base) \o url
    ELSE IF url[1] = "?" THEN OriginOf(base) \o PathOf(base) \o url
    ELSE OriginOf(base) \o DirOf(base) \o url

(***************************************************************************)
(* Parsed pages                                                             *)
(*                                                                          *)
(* A soup is a record                                                       *)
(*   main, content, article : whether the page has                          *)
(*       <div id="block-eco-omega-system-main">, <div class="content">,     *)
(*       <article>;                                                         *)
(*   hasTitle, title : the <title> tag;                                     *)
(*   els : the block elements in document order, each a record              *)
(*       tag    : "p", "h1" or "li",                                        *)
(*       in     : "main", "content", "article" or "other", the region the   *)
(*                element lies in,                                          *)
(*       pieces : its text nodes in order, each [s, a, hasHref, href]:      *)
(*                the text s, whether it is the text of an <a> tag, whether *)
(*                that tag has an href, the href.                           *)
(***************************************************************************)

Piece(s) == [s |-> s, a |-> FALSE, hasHref |-> FALSE, href |-> <<>>]
Anchor(s, href) == [s |-> s, a |-> TRUE, hasHref |-> TRUE, href |-> href]
BareAnchor(s) == [s |-> s, a |-> TRUE, hasHref |-> FALSE, href |-> <<>>]
El(tag, in, pieces) == [tag |-> tag, in |-> in, pieces |-> pieces]

\* tag.text: the text nodes concatenated
TextOf(el) == Concat([i \in 1..Len(el.pieces) |-> el.pieces[i].s])

\* tag.get_text(strip=True): the text nodes stripped, the empty ones dropped, concatenated
StrippedTextOf(el) ==
    Concat(SelectSeq([i \in 1..Len(el.pieces) |-> Strip(el.pieces[i].s)],
                     LAMBDA t : t # <<>>))

\* tag.find('a'): whether there is one, and the text of the first
HasA(el) == \E i \in 1..Len(el.pieces) : el.pieces[i].a
FirstAText(el) ==
    el.pieces[CHOOSE i \in 1..Len(el.pieces) :
                /\ el.pieces[i].a
                /\ \A j \in 1..(i - 1) : ~el.pieces[j].a].s

\* whether an element lies in a container ("all" is the whole document)
InScope(el, scope) == scope = "all" \/ el.in = scope

\* container.find_all(tag)
FindAll(soup, tag, scope) ==
    SelectSeq(soup.els, LAMBDA el : el.tag = tag /\ InScope(el, scope))

(***************************************************************************)
(* has_significant_text                                                     *)
(***************************************************************************)

\* the thresholds of the classifier
MinParagraphs == 2
MinTotalLength == 150
CaptionMargin == 10

\* a paragraph that is not just a link
IsContentParagraph(p) ==
    /\ Strip(TextOf(p)) # <<>>
    /\ \/ ~HasA(p)
       \/ Len(TextOf(p)) > Len(FirstAText(p)) + CaptionMargin

\* the paragraphs the classifier looks at: those of the target div, or all without it
ClassifierParagraphs(soup) ==
    FindAll(soup, "p", IF soup.main THEN "main" ELSE "all")

\* a classifier that takes a total of exactly the threshold
HasContent_Inclusive(content_paragraphs) ==
    /\ Len(content_paragraphs) >= MinParagraphs
    /\ Sum([i \in 1..Len(content_paragraphs) |-> Len(TextOf(content_paragraphs[i]))])
         >= MinTotalLength

HasContent(content_paragraphs) ==
    /\ Len(content_paragraphs) >= MinParagraphs
    /\ Sum([i \in 1..Len(content_paragraphs) |-> Len(TextOf(content_paragraphs[i]))])
         > MinTotalLength

has_significant_text(soup) ==
    HasContent(SelectSeq(ClassifierParagraphs(soup), IsContentParagraph))

(***************************************************************************)
(* extract_page_content                                                     *)
(***************************************************************************)

\* main_content: the target div, else div.content, else article, else the document
ContentScope(soup) ==
    IF soup.main THEN "main"
    ELSE IF soup.content THEN "content"
    ELSE IF soup.article THEN "article"
    ELSE "all"

\* url.split('/')[-1].replace('-', ' ').title()
TitleFromURL(url) == TitleCase(ReplaceChar(LastSegment(url), "-", " "))

\* the h1 of the container, else the first h1 of the document, else <title>, else the URL
ExtractTitle(soup, url) ==
    LET inner == FindAll(soup, "h1", ContentScope(soup))
        any   == FindAll(soup, "h1", "all")
    IN  IF inner # <<>> THEN StrippedTextOf(inner[1])
        ELSE IF any # <<>> THEN StrippedTextOf(any[1])
        ELSE IF soup.hasTitle THEN Strip(soup.title)
        ELSE TitleFromURL(url)

\* the stripped text of the container's paragraphs, the empty ones skipped, joined by "\n\n"
ExtractBody(soup) ==
    LET ps == FindAll(soup, "p", ContentScope(soup))
    IN  Join(<<"\n", "\n">>,
             SelectSeq([i \in 1..Len(ps) |-> StrippedTextOf(ps[i])],
                       LAMBDA t : t # <<>>))

extract_page_content(soup, url) ==
    [title |-> ExtractTitle(soup, url), content |-> ExtractBody(soup)]

(***************************************************************************)
(* extract_links                                                            *)
(***************************************************************************)

\* the hrefs of target_div.find_all('a', href=True), in document order
RECURSIVE HrefsOf(_)
HrefsOf(els) ==
    IF els = <<>> THEN <<>>
    ELSE LET as == SelectSeq(els[1].pieces, LAMBDA pc : pc.a /\ pc.hasHref)
         IN  [i \in 1..Len(as) |-> as[i].href] \o HrefsOf(Tail(els))

\* anchors, script pseudo-links and mail links are skipped
SkippedHref(href) ==
    \/ StartsWith(href, <<"#">>)
    \/ StartsWith(href, <<"j","a","v","a","s","c","r","i","p","t",":">>)
    \/ StartsWith(href, <<"m","a","i","l","t","o",":">>)

\* full_url.startswith(base_url)
SameDomain(full_url) == StartsWith(full_url, base_url)

\* an extractor that takes the links of the whole document
ResolvedLinks_WholePage(soup, current_url) ==
    LET hrefs == SelectSeq(HrefsOf(soup.els), LAMBDA h : ~SkippedHref(h))
    IN  [i \in 1..Len(hrefs) |-> urljoin(current_url, hrefs[i])]

\* the links of the target div that are not skipped, made absolute (<<>> without
\* the target div)
ResolvedLinks(soup, current_url) ==
    IF soup.main
    THEN LET hrefs == SelectSeq(HrefsOf(SelectSeq(soup.els, LAMBDA el : el.in = "main")),
                                LAMBDA h : ~SkippedHref(h))
         IN  [i \in 1..Len(hrefs) |-> urljoin(current_url, hrefs[i])]
    ELSE <<>>

\* the links kept, given the resolved ones
KeepSameDomain(full_urls) == SelectSeq(full_urls, SameDomain)

extract_links(soup, current_url) == KeepSameDomain(ResolvedLinks(soup, current_url))

(***************************************************************************)
(* save_content_to_file: what the file holds                                *)
(***************************************************************************)

\* "="*50
SeparatorWidth == 50

\* time.strftime('%Y-%m-%d %H:%M:%S'): the model keeps no clock, the stamp is its pattern
TimeStamp == <<"Y","Y","Y","Y","-","M","M","-","D","D"," ","H","H",":","M","M",":","S","S">>

\* the five file.write calls, in order
FileChunks(title, content, url) ==
    << <<"T","i","t","l","e",":"," ">> \o title \o <<"\n">>,
       <<"S","o","u","r","c","e"," ","U","R","L",":"," ">> \o url \o <<"\n">>,
       <<"D","a","t","e"," ","s","c","r","a","p","e","d",":"," ">> \o TimeStamp \o <<"\n">>,
       <<"\n">> \o Rep("=", SeparatorWidth) \o <<"\n", "\n">>,
       content >>

NumChunks == Len(FileChunks(<<>>, <<>>, <<>>))

\* a save without its first test
IsBlank_Never(content) == FALSE

\* content.strip() is empty: nothing is saved
IsBlank(content) == Strip(content) = <<>>

\* a file of scraped_content: its name, the URL of the call that opened it last,
\* and the chunks written since
NewFile(filename, url) == [name |-> filename, url |-> url, chunks |-> <<>>]

\* an open that leaves the file of that name beside the new one
OpenForWrite_Keeps(fs, f) == fs \cup {f}

\* open(filepath, 'w'): the file is created, or cut to nothing if it exists
OpenForWrite(fs, f) == {g \in fs : g.name # f.name} \cup {f}

\* file.write(chunk) on the file of that name
WriteChunk(fs, filename, chunk) ==
    {IF f.name = filename THEN [f EXCEPT !.chunks = Append(f.chunks, chunk)] ELSE f :
        f \in fs}

\* header, separator and body are all in the file
FullyWritten(f) == Len(f.chunks) = NumChunks

\* the open file of save_content_to_file: its name and the chunks still to write
NoOpenFile == [name |-> <<>>, todo |-> <<>>]

(***************************************************************************)
(* process_page and recursive_crawl: the pieces the actions use             *)
(***************************************************************************)

\* the success status
StatusOK == 200

\* a process_page that forgets to mark the URL
MarkVisited_Forgets(visited, url) == visited

\* a process_page that assigns the set instead of adding to it
MarkVisited_Only(visited, url) == {url}

\* visited_urls.add(url)
MarkVisited(visited, url) == visited \cup {url}

\* a process_page without its first test
AlreadyVisited_Never(visited, url) == FALSE

\* if url in visited_urls: return []
AlreadyVisited(visited, url) == url \in visited

\* a loop that tests the queue alone
ShouldEnqueue_QueueOnly(link, visited, queue) == link \notin Range(queue)

\* a loop that tests the visited set alone
ShouldEnqueue_VisitedOnly(link, visited, queue) == link \notin visited

\* if link not in visited_urls and link not in url_queue
ShouldEnqueue(link, visited, queue) ==
    /\ link \notin visited
    /\ link \notin Range(queue)

\* a loop that puts the new links at the head of the queue
EnqueueAll_AtHead(queue, links, visited) ==
    SelectSeq(links, LAMBDA link : ShouldEnqueue(link, visited, queue)) \o queue

\* for link in child_links: ... url_queue.append(link)
RECURSIVE EnqueueAll(_, _, _)
EnqueueAll(queue, links, visited) ==
    IF links = <<>> THEN queue
    ELSE EnqueueAll(IF ShouldEnqueue(links[1], visited, queue)
                    THEN Append(queue, links[1])
                    ELSE queue,
                    Tail(links), visited)

\* a loop that reads the head and leaves it in the queue
PopHead_Keeps(queue) == queue

\* url_queue.pop(0): what is left
PopHead(queue) == Tail(queue)

(***************************************************************************)
(* main: what it prints last and how the process ends                       *)
(***************************************************************************)

\* the exit status of a process whose main() returns: nothing calls sys.exit
ExitSuccess == 0

\* the count of a line without the number of URLs
NoCount == -1

\* main has not ended
Running == [line |-> "starting", count |-> NoCount, exit_status |-> "none"]

\* main prints its last line and returns; the interpreter ends with status 0
MainReturns(line, count) ==
    [line |-> line, count |-> count, exit_status |-> ExitSuccess]

\* line 179: "Crawl completed. Processed {len(visited_urls)} URLs."
Completed(visited) == MainReturns("completed", Cardinality(visited))

\* line 181: "\nCrawl interrupted by user."
Interrupted(visited) == MainReturns("interrupted", NoCount)

\* line 183: "Crawl failed with error: {e}"
CrawlFailed(visited) == MainReturns("failed", NoCount)

(***************************************************************************)
(* The pages the transport may return                                       *)
(***************************************************************************)

\* the longest list of links of a navigation page, and the most fetches (and
\* the most URLs taken from the queue) of a run
MaxLinks == 2
MaxFetches == 7

\* hrefs of navigation pages: the absolute URL of /a, "x" (relative: /x on the
\* site) and a host that only begins with the text of base_url. A page may link
\* to itself (/a to /a) or back (/a to /x to /a)
URLA == base_url \o <<"/","a">>
URLX == base_url \o <<"/","x">>
SpoofURL == base_url \o <<".","o","t","h","e","r",".","e","x","a","m","p","l","e","/","x">>
OtherURL == <<"h","t","t","p","s",":","/","/","o","t","h","e","r",".","e","x","a","m","p","l","e","/","x">>
HrefX == <<"x">>
Hrefs == {URLA, HrefX, SpoofURL}

LinkLists == UNION {[1..n -> Hrefs] : n \in 0..MaxLinks}

\* the titles of content pages: the first two get the same file name
TitleAB == <<"A"," ","B">>
TitleADashB == <<"A"," ","-"," ","B">>
Titles == {TitleAB, TitleADashB}

\* the length of a paragraph of prose
ProseLength == 80

EmptySoup ==
    [main |-> FALSE, content |-> FALSE, article |-> FALSE,
     hasTitle |-> FALSE, title |-> <<>>, els |-> <<>>]

\* a navigation page: the target div holds a list of links
NavSoup(hrefs) ==
    [EmptySoup EXCEPT
        !.main = TRUE,
        !.els = [i \in 1..Len(hrefs) |-> El("li", "main", <<Anchor(<<"g","o">>, hrefs[i])>>)]]

\* a content page: the target div holds a heading and two paragraphs of prose,
\* the second with a link
ContentSoup(title) ==
    [EmptySoup EXCEPT
        !.main = TRUE,
        !.els = << El("h1", "main", <<Piece(title)>>),
                   El("p", "main", <<Piece(Rep("x", ProseLength))>>),
                   El("p", "main", <<Piece(Rep("y", ProseLength) \o <<" ">>),
                                     Anchor(<<"g","o">>, HrefX)>>) >>]

\* a content page without heading and without <title>: its title comes from the URL
UntitledContentSoup ==
    [EmptySoup EXCEPT
        !.main = TRUE,
        !.els = << El("p", "main", <<Piece(Rep("x", ProseLength))>>),
                   El("p", "main", <<Piece(Rep("y", ProseLength))>>) >>]

\* a page without the target div whose prose lies outside its div.content: the
\* classifier sees the prose, the extractor finds no paragraph
StrayProseSoup ==
    [EmptySoup EXCEPT
        !.content = TRUE,
        !.els = << El("p", "other", <<Piece(Rep("x", ProseLength))>>),
                   El("p", "other", <<Piece(Rep("y", ProseLength))>>),
                   El("li", "other", <<Anchor(<<"g","o">>, URLA)>>) >>]

\* a page without the target div whose prose lies in its div.content
FallbackContentSoup ==
    [EmptySoup EXCEPT
        !.content = TRUE,
        !.els = << El("p", "content", <<Piece(Rep("x", ProseLength))>>),
                   El("p", "content", <<Piece(Rep("y", ProseLength) \o <<" ">>),
                                        Anchor(<<"g","o">>, URLA)>>) >>]

\* a page without the target div and without prose, with a link
ForeignSoup ==
    [EmptySoup EXCEPT
        !.els = << El("p", "other", <<Anchor(<<"R","e","a","d"," ","m","o","r","e">>, HrefX)>>) >>]

Soups ==
    {NavSoup(hrefs) : hrefs \in LinkLists}
      \cup {ContentSoup(title) : title \in Titles}
      \cup {UntitledContentSoup, StrayProseSoup, FallbackContentSoup, ForeignSoup}

\* the status codes of a response that is no success
ErrorStatuses == {404, 500}

(***************************************************************************)
(* State                                                                    *)
(***************************************************************************)

VARIABLES
    url_queue,      \* recursive_crawl: the frontier
    visited_urls,   \* the module's set of the URLs processed
    current_url,    \* the URL process_page is working on
    child_links,    \* what process_page returned last
    pc,             \* where the program is
    page,           \* process_page: the title and content extracted (line 145)
    saving,         \* save_content_to_file: the file that is open, or NoOpenFile
    files,          \* the files of scraped_content
    fetch_log,      \* the URLs session.get was called with, in order
    save_result,    \* what the last call of save_content_to_file came to
    crawled,        \* what became of each URL fetched: [url, kind, anchors, saved]
    summary,        \* main: the last line it printed, the count in it, the exit status
    dequeued,       \* recursive_crawl: how many times url_queue.pop(0) was executed
    call,           \* a function called on its own: its name and arguments, or NoCall
    result          \* what that call returned, or NoResult

\* no page extracted
NoPage == [title |-> <<>>, content |-> <<>>]

\* no function is called on its own
NoCall == [fn |-> "none"]
NoResult == [returned |-> FALSE]

\* the call returned value
Returned(value) == [returned |-> TRUE, value |-> value]

vars == <<url_queue, visited_urls, current_url, child_links, pc, page, saving,
          files, fetch_log, save_result, crawled, summary, dequeued, call, result>>

\* the variables of the calls of single functions
fn_vars == <<call, result>>

\* the variables of the crawl
crawl_vars == <<url_queue, visited_urls, current_url, child_links, pc, page, saving,
                files, fetch_log, save_result, crawled, summary, dequeued>>

\* what became of a URL fetched: kind is "failed", "content" or "navigation",
\* anchors the resolved in-region links of a navigation page, saved the name of
\* the file the call wrote in full (<<>> if none)
Outcome(url, kind, anchors) ==
    [url |-> url, kind |-> kind, anchors |-> anchors, saved |-> <<>>,
     region |-> FALSE]

\* the record of a page parsed, with whether it has the target div
OfPage(outcome, s) == [outcome EXCEPT !.region = s.main]

\* the record of url, with the file its call wrote
WithSaved(cs, url, filename) ==
    {IF c.url = url THEN [c EXCEPT !.saved = filename] ELSE c : c \in cs}

InitCommon ==
    /\ visited_urls = {}
    /\ current_url = <<>>
    /\ child_links = <<>>
    /\ page = NoPage
    /\ saving = NoOpenFile
    /\ files = {}
    /\ fetch_log = <<>>
    /\ save_result = "none"
    /\ crawled = {}
    /\ summary = Running
    /\ dequeued = 0
    /\ call = NoCall
    /\ result = NoResult

\* recursive_crawl starts with the root URL in the queue
Init ==
    /\ InitCommon
    /\ url_queue = <<SeedURL>>
    /\ pc = "loop"

(***************************************************************************)
(* process_page                                                             *)
(***************************************************************************)

\* return []
ReturnEmpty ==
    /\ child_links' = <<>>
    /\ page' = NoPage
    /\ pc' = "ret"

\* lines 124-128: an already visited URL returns at once, another is marked visited
Enter ==
    /\ pc = "call"
    /\ IF AlreadyVisited(visited_urls, current_url)
       THEN /\ ReturnEmpty
            /\ UNCHANGED visited_urls
       ELSE /\ visited_urls' = MarkVisited(visited_urls, current_url)
            /\ pc' = "fetch"
            /\ UNCHANGED <<child_links, page>>
    /\ UNCHANGED <<url_queue, current_url, saving, files, fetch_log, save_result,
                   crawled, summary>>
    /\ UNCHANGED <<dequeued, fn_vars>>

\* session.get(url) is called
IssueFetch ==
    /\ pc = "fetch"
    /\ Len(fetch_log) < MaxFetches
    /\ fetch_log' = Append(fetch_log, current_url)

\* a failure path that hands the URL back for another try
FailedChildren_Retry(url) == <<url>>

\* return []  (lines 138 and 154: a failed URL has no children)
FailedChildren(url) == <<>>

\* lines 136-138 and 152-154: the failure is printed and process_page returns []
Failed ==
    /\ child_links' = FailedChildren(current_url)
    /\ page' = NoPage
    /\ pc' = "ret"
    /\ crawled'= crawled \cup {Outcome(current_url, "failed", {})}
    /\ UNCHANGED <<url_queue, visited_urls, current_url, saving, files, save_result,
                   summary>>
    /\ UNCHANGED <<dequeued, fn_vars>>

\* session.get raises: the except clause returns []
FetchRaises ==
    /\ IssueFetch
    /\ Failed

\* the response has another status than 200
FetchStatusError ==
    /\ IssueFetch
    /\ \E status \in ErrorStatuses : status # StatusOK
    /\ Failed

\* BeautifulSoup raises on the body: the except clause returns []
ParseRaises ==
    /\ IssueFetch
    /\ Failed

\* a process_page that goes on to the links of a content page
ContentChildren_Links(s, url) == extract_links(s, url)

\* return []  (line 147: a content page has no children)
ContentChildren(s, url) == <<>>

\* lines 144-150, and lines 78-79 of save_content_to_file: a content page goes to
\* save_content_to_file, which returns at once on a blank body; any other page
\* returns its links
Classify(s) ==
    IF has_significant_text(s)
    THEN /\ child_links' = ContentChildren(s, current_url)
         /\ crawled' = crawled \cup {OfPage(Outcome(current_url, "content", {}), s)}
         /\ \E extracted \in {extract_page_content(s, current_url)} :
               IF IsBlank(extracted.content)
               THEN /\ pc' = "ret"
                    /\ page' = NoPage
                    /\ save_result' = "skipped"
               ELSE /\ pc' = "open"
                    /\ page' = extracted
                    /\ UNCHANGED save_result
    ELSE /\ LET full_urls == ResolvedLinks(s, current_url)
            IN  /\ child_links' = KeepSameDomain(full_urls)
                /\ crawled' = crawled \cup
                      {OfPage(Outcome(current_url, "navigation", Range(full_urls)), s)}
         /\ pc' = "ret"
         /\ page' = NoPage
         /\ UNCHANGED save_result

\* the response has status 200 and its body parses: the page is classified
FetchOK ==
    /\ IssueFetch
    /\ \E s \in Soups : Classify(s)
    /\ UNCHANGED <<url_queue, visited_urls, current_url, saving, files, summary>>
    /\ UNCHANGED <<dequeued, fn_vars>>

(***************************************************************************)
(* save_content_to_file                                                     *)
(***************************************************************************)

\* lines 81-84: the file is opened for writing
SaveOpen ==
    /\ pc = "open"
    /\ \E filename \in {clean_filename(page.title)} :
          /\ files' = OpenForWrite(files, NewFile(filename, current_url))
          /\ saving' = [name |-> filename,
                        todo |-> FileChunks(page.title, page.content, current_url)]
    /\ page' = NoPage
    /\ pc' = "write"
    /\ UNCHANGED <<url_queue, visited_urls, current_url, child_links, fetch_log,
                   save_result, crawled, summary>>
    /\ UNCHANGED <<dequeued, fn_vars>>

\* open raises (no such directory, no permission): process_page returns []. The
\* failures of the file system are modelled here, at the open
SaveOpenRaises ==
    /\ pc = "open"
    /\ ReturnEmpty
    /\ save_result' = "raised"
    /\ UNCHANGED <<url_queue, visited_urls, current_url, saving, files, fetch_log,
                   crawled, summary>>
    /\ UNCHANGED <<dequeued, fn_vars>>

\* one file.write of lines 85-89
SaveWrite ==
    /\ pc = "write"
    /\ saving.todo # <<>>
    /\ files' = WriteChunk(files, saving.name, Head(saving.todo))
    /\ saving' = [saving EXCEPT !.todo = Tail(saving.todo)]
    /\ UNCHANGED <<url_queue, visited_urls, current_url, child_links, pc, page,
                   fetch_log, save_result, crawled, summary>>
    /\ UNCHANGED <<dequeued, fn_vars>>

\* the with statement ends: the file is closed, save_content_to_file returns True
\* and process_page []
SaveClose ==
    /\ pc = "write"
    /\ saving.todo = <<>>
    /\ saving' = NoOpenFile
    /\ ReturnEmpty
    /\ save_result' = "saved"
    /\ crawled' = WithSaved(crawled, current_url, saving.name)
    /\ UNCHANGED <<url_queue, visited_urls, current_url, files, fetch_log, summary>>
    /\ UNCHANGED <<dequeued, fn_vars>>

ProcessPage ==
    \/ Enter
    \/ FetchRaises
    \/ FetchStatusError
    \/ ParseRaises
    \/ FetchOK
    \/ SaveOpen
    \/ SaveOpenRaises
    \/ SaveWrite
    \/ SaveClose

(***************************************************************************)
(* recursive_crawl and main                                                 *)
(***************************************************************************)

\* lines 161-165: the head of the queue is taken and handed to process_page
Dequeue ==
    /\ pc = "loop"
    /\ url_queue # <<>>
    /\ dequeued < MaxFetches
    /\ current_url' = Head(url_queue)
    /\ url_queue' = PopHead(url_queue)
    /\ pc' = "call"
    /\ dequeued' = dequeued + 1
    /\ save_result' = "none"
    /\ UNCHANGED <<visited_urls, child_links, page, saving, files, fetch_log,
                   crawled, summary>>
    /\ UNCHANGED fn_vars

\* lines 168-172: the links process_page returned are added to the queue
Enqueue ==
    /\ pc = "ret"
    /\ url_queue' = EnqueueAll(url_queue, child_links, visited_urls)
    /\ pc' = "loop"
    /\ UNCHANGED <<visited_urls, current_url, child_links, page, saving, files,
                   fetch_log, save_result, crawled, summary>>
    /\ UNCHANGED <<dequeued, fn_vars>>

\* the queue is empty: recursive_crawl returns and main prints the count
Finish ==
    /\ pc = "loop"
    /\ url_queue = <<>>
    /\ pc' = "done"
    /\ summary' = Completed(visited_urls)
    /\ UNCHANGED <<url_queue, visited_urls, current_url, child_links, page, saving,
                   files, fetch_log, save_result, crawled>>
    /\ UNCHANGED <<dequeued, fn_vars>>

\* KeyboardInterrupt, at any point of the crawl: no except clause of process_page
\* catches it, a with statement it passes closes the file, the frames of
\* process_page and recursive_crawl are left with their locals, main prints and
\* returns
Interrupt ==
    /\ pc \notin {"done", "interrupted"}
    /\ pc' = "interrupted"
    /\ saving' = NoOpenFile
    /\ url_queue' = <<>>
    /\ current_url' = <<>>
    /\ child_links' = <<>>
    /\ page' = NoPage
    /\ save_result' = "none"
    /\ summary' = Interrupted(visited_urls)
    /\ UNCHANGED <<visited_urls, files, fetch_log, crawled>>
    /\ UNCHANGED <<dequeued, fn_vars>>

Crawl ==
    \/ Dequeue
    \/ ProcessPage
    \/ Enqueue
    \/ Finish

Next ==
    \/ Crawl
    \/ Interrupt

Spec == Init /\ [][Next]_vars

(***************************************************************************)
(* The crawl where a statement outside the try block of process_page may    *)
(* raise: the print of line 128, after the URL is marked, and the print of  *)
(* line 172, after the links are enqueued                                   *)
(***************************************************************************)

\* an Exception leaves recursive_crawl: main prints the error and returns
Escape ==
    /\ pc \in {"fetch", "ret"}
    /\ pc' = "failed"
    /\ saving' = NoOpenFile
    /\ url_queue' = <<>>
    /\ current_url' = <<>>
    /\ child_links' = <<>>
    /\ page' = NoPage
    /\ save_result' = "none"
    /\ summary' = CrawlFailed(visited_urls)
    /\ UNCHANGED <<visited_urls, files, fetch_log, crawled>>
    /\ UNCHANGED <<dequeued, fn_vars>>

NextMain ==
    \/ Next
    \/ Escape

SpecMain == Init /\ [][NextMain]_vars

(***************************************************************************)
(* The crawl without interruption, where every step that can be taken is    *)
(* taken in the end: a fetch returns, a write returns                       *)
(***************************************************************************)

LiveSpec == Init /\ [][Crawl]_vars /\ WF_vars(Crawl)

(***************************************************************************)
(* process_page called directly, on any URL and any number of times         *)
(***************************************************************************)

\* the URLs process_page is called with
CallURLs == {SeedURL, URLA}

InitPP ==
    /\ InitCommon
    /\ url_queue = <<>>
    /\ pc = "idle"

\* process_page(url)
Call ==
    /\ pc = "idle"
    /\ \E url \in CallURLs : current_url' = url
    /\ pc' = "call"
    /\ save_result' = "none"
    /\ UNCHANGED <<url_queue, visited_urls, child_links, page, saving, files,
                   fetch_log, crawled, summary>>
    /\ UNCHANGED <<dequeued, fn_vars>>

\* the caller has the returned links
Return ==
    /\ pc = "ret"
    /\ pc' = "idle"
    /\ UNCHANGED <<url_queue, visited_urls, current_url, child_links, page, saving,
                   files, fetch_log, save_result, crawled, summary>>
    /\ UNCHANGED <<dequeued, fn_vars>>

NextPP ==
    \/ Call
    \/ ProcessPage
    \/ Return

SpecPP == InitPP /\ [][NextPP]_vars

(***************************************************************************)
(* The functions called on their own: the call is drawn from Calls, the     *)
(* action of the function applies it                                        *)
(***************************************************************************)

\* the most paragraphs of a page handed to the classifier
MaxParagraphs == 3

\* the paragraphs of those pages: prose of 75, 76 and 80 characters, white space,
\* a link caption, a link with 10 characters beside it, a link after prose
ParagraphKinds ==
    {<<Piece(Rep("x", n))>> : n \in {75, 76, ProseLength}}
      \cup {<<Piece(<<" ", " ", " ">>)>>,
             <<Anchor(<<"R","e","a","d"," ","m","o","r","e">>, HrefX)>>,
             <<Piece(Rep("x", 10)), Anchor(<<"g","o">>, HrefX)>>,
             <<Piece(Rep("x", ProseLength)), Anchor(<<"g","o">>, HrefX)>>}

\* paragraphs inside the target div, or outside it
Paragraphs(regions) == {El("p", in, pieces) : in \in regions, pieces \in ParagraphKinds}

\* pages of up to MaxParagraphs paragraphs, with the target div or without it
PagesOf(main, regions) ==
    UNION {{[EmptySoup EXCEPT !.main = main, !.els = els] :
              els \in [1..n -> Paragraphs(regions)]} : n \in 0..MaxParagraphs}

ClassifierPages == PagesOf(TRUE, {"main", "other"}) \cup PagesOf(FALSE, {"other"})

ClassifierCalls == {[fn |-> "has_significant_text", soup |-> s] : s \in ClassifierPages}

\* the length of the titles handed to clean_filename
TitleLength == 500

\* titles of that length: k times the character c, then the letter a
TwoPart(c, k) == Rep(c, k) \o Rep("a", TitleLength - k)

\* titles of that length: c and d in turn
InTurn(c, d) == [i \in 1..TitleLength |-> IF i % 2 = 1 THEN c ELSE d]

LongTitles ==
    {TwoPart(c, k) : c \in {"?", " ", "-", "b"}, k \in {0, 1, 399, 400, 401, TitleLength}}
      \cup {InTurn(c, d) : c \in {"a", "?"}, d \in {"?", " ", "-"}}

FilenameCalls == {[fn |-> "clean_filename", text |-> t] : t \in LongTitles}

Calls == ClassifierCalls \cup FilenameCalls

InitFn ==
    /\ url_queue = <<>>
    /\ visited_urls = {}
    /\ current_url = <<>>
    /\ child_links = <<>>
    /\ pc = "idle"
    /\ page = NoPage
    /\ saving = NoOpenFile
    /\ files = {}
    /\ fetch_log = <<>>
    /\ save_result = "none"
    /\ crawled = {}
    /\ summary = Running
    /\ dequeued = 0
    /\ call \in Calls
    /\ result = NoResult

\* has_significant_text(soup)
ApplyHasSignificantText ==
    /\ call.fn = "has_significant_text"
    /\ ~result.returned
    /\ result' = Returned(has_significant_text(call.soup))
    /\ UNCHANGED <<call, crawl_vars>>

\* clean_filename(text)
ApplyCleanFilename ==
    /\ call.fn = "clean_filename"
    /\ ~result.returned
    /\ result' = Returned(clean_filename(call.text))
    /\ UNCHANGED <<call, crawl_vars>>

NextFn ==
    \/ ApplyHasSignificantText
    \/ ApplyCleanFilename

SpecFn == InitFn /\ [][NextFn]_vars

(***************************************************************************)
(* Properties                                                               *)
(***************************************************************************)

\* how often x is in the sequence s
Occurrences(s, x) == Cardinality({i \in 1..Len(s) : s[i] = x})

\* the navigation pages that link to themselves inside the target div
SelfLinked == {c \in crawled : c.kind = "navigation" /\ c.url \in c.anchors}

\* whether the page fetched for url was classified as a content page
IsContentPage(url) == \E c \in crawled : c.url = url /\ c.kind = "content"

\* C1: in every reachable state of recursive_crawl the frontier holds no URL twice
\* and no URL is both in the frontier and in the visited set
C1_FrontierSound ==
    /\ NoDuplicates(url_queue)
    /\ Range(url_queue) \cap visited_urls = {}

\* a page returned a link that is visited and a link that waits in the frontier,
\* and the loop has gone through the links
C1_Witness ==
    /\ pc = "loop"
    /\ \E i, j \in 1..Len(child_links) :
          /\ child_links[i] \in visited_urls
          /\ child_links[j] \in Range(url_queue)

\* C2: over a whole crawl no URL is fetched more than once, whatever the links
\* (cycles, self-links, a link on several pages) and the outcomes of the fetches
C2_NoRefetch == NoDuplicates(fetch_log)

\* the crawl is over; a page linked to itself and was linked by another page, and
\* a fetch failed
C2_Witness ==
    /\ pc = "done"
    /\ \E c \in SelfLinked : \E d \in crawled : d.url # c.url /\ c.url \in d.anchors
    /\ \E c \in crawled : c.kind = "failed"

\* C3: whenever a fetch of a URL is issued the URL is in the visited set, and a
\* navigation page that links to itself is not enqueued again nor fetched again
C3_VisitedBeforeFetch ==
    /\ [][fetch_log' # fetch_log =>
             /\ current_url \in visited_urls
             /\ fetch_log' = Append(fetch_log, current_url)]_vars
    /\ [](\A c \in SelfLinked :
             /\ c.url \notin Range(url_queue)
             /\ Occurrences(fetch_log, c.url) = 1)

\* the crawl is over and a navigation page linked to itself
C3_Witness ==
    /\ pc = "done"
    /\ SelfLinked # {}

\* C4: process_page on a URL of the visited set returns [] at once: no fetch, no
\* file, the visited set as it was
C4_VisitedIsNoOp ==
    [][(pc = "call" /\ current_url \in visited_urls) =>
          /\ pc' = "ret"
          /\ child_links' = <<>>
          /\ UNCHANGED <<visited_urls, fetch_log, files, saving>>]_vars

\* a call has returned, for a URL that was fetched by an earlier call, and not by
\* this one
C4_Witness ==
    /\ pc = "ret"
    /\ child_links = <<>>
    /\ current_url \in Range(fetch_log)
    /\ fetch_log[Len(fetch_log)] # current_url

\* C5: from the moment a page is classified as a content page, process_page has
\* no child links and the frontier gets nothing, whether the file is written, the
\* save skipped for a blank body, or the save raises
C5_ContentIsTerminal ==
    [][(IsContentPage(current_url) /\ pc \in {"open", "write", "ret"}) =>
          /\ child_links = <<>>
          /\ pc' # "interrupted" => url_queue' = url_queue]_vars

\* the loop is past a content page whose save raised, after a content page whose
\* file was written
C5_Witness ==
    /\ pc = "loop"
    /\ IsContentPage(current_url)
    /\ save_result = "raised"
    /\ \E f \in files : FullyWritten(f)

\* the loop is past a content page with links whose save was skipped for a blank body
C5_WitnessSkipped ==
    /\ pc = "loop"
    /\ IsContentPage(current_url)
    /\ save_result = "skipped"
    /\ url_queue # <<>>

\* C6: with finitely many URLs in reach and every fetch returning, the loop comes
\* to an empty frontier and stops; nothing caps the depth or the visited count
C6_Terminates == <>(pc = "done" /\ url_queue = <<>>)

\* the crawl is over, every URL in reach was visited, and two pages linked to
\* each other
C6_Witness ==
    /\ pc = "done"
    /\ Cardinality(visited_urls) = 4
    /\ \E c, d \in crawled :
          /\ c.url # d.url
          /\ d.url \in c.anchors
          /\ c.url \in d.anchors

\* a URL of the site: its origin is base_url
SameOrigin(url) == OriginOf(url) = base_url

\* the in-region links of the navigation pages fetched, as pairs <<from, to>>
NavigationLinks ==
    UNION {{<<c.url, l>> : l \in c.anchors} : c \in {c \in crawled : c.kind = "navigation"}}

\* the URLs reachable from those of S over the links
RECURSIVE ReachableFrom(_, _)
ReachableFrom(S, links) ==
    LET T == S \cup {e[2] : e \in {e \in links : e[1] \in S}}
    IN  IF T = S THEN S ELSE ReachableFrom(T, links)

\* C7: when the loop ends with an empty frontier, the visited set is exactly the
\* set of URLs reachable from the root over the same-domain in-region links of
\* the pages fetched and classified as navigation pages
C7_VisitedIsReachable ==
    (pc = "done" /\ url_queue = <<>>) =>
        visited_urls =
            ReachableFrom({SeedURL}, {e \in NavigationLinks : SameOrigin(e[2])})

\* what holds in place of C7: the visited set is what is reachable over the links
\* that begin with the text of base_url
C7_VisitedIsPrefixReachable ==
    (pc = "done" /\ url_queue = <<>>) =>
        visited_urls =
            ReachableFrom({SeedURL}, {e \in NavigationLinks : SameDomain(e[2])})

\* the URLs whose fetch failed
FailedURLs == {c.url : c \in {c \in crawled : c.kind = "failed"}}

\* the URLs the pages of the model can lead the crawl to
CrawlURLs == {SeedURL, URLA, URLX, SpoofURL}

\* C8: a failed fetch (status, transport or parse) makes process_page return []
\* and nothing more: the URL stays visited and is not fetched again, it gets no
\* file, the frontier keeps what was waiting, and the loop goes on to process it
C8_FailureIsIsolated ==
    /\ [](\A url \in FailedURLs :
             /\ url \in visited_urls
             /\ Occurrences(fetch_log, url) = 1
             /\ \A f \in files : f.url # url)
    /\ [][(pc = "ret" /\ current_url \in FailedURLs) =>
             /\ child_links = <<>>
             /\ pc' = "loop"
             /\ url_queue' = url_queue]_vars
    /\ [](Range(url_queue) \cup visited_urls \subseteq CrawlURLs)
    /\ \A url \in CrawlURLs :
          [](url \in Range(url_queue) => <>(url \in visited_urls))

\* the crawl is over; a fetch failed and a URL fetched after it gave a content page
C8_Witness ==
    /\ pc = "done"
    /\ \E i, j \in 1..Len(fetch_log) :
          /\ i < j
          /\ fetch_log[i] \in FailedURLs
          /\ IsContentPage(fetch_log[j])

\* the root page was a navigation page with exactly the two distinct same-domain
\* in-region links u1 and u2, and both gave content pages whose file was written
TwoContentPages(u1, u2) ==
    /\ u1 # u2
    /\ SameOrigin(u1)
    /\ SameOrigin(u2)
    /\ \E c \in crawled :
          c.url = SeedURL /\ c.kind = "navigation" /\ c.anchors = {u1, u2}
    /\ \A u \in {u1, u2} :
          \E c \in crawled : c.url = u /\ c.kind = "content" /\ c.saved # <<>>

\* the file name the call for url wrote
SavedAs(url) == (CHOOSE c \in crawled : c.url = url).saved

\* the one of the two URLs that was fetched last
FetchedLast(u1, u2) ==
    IF \E i, j \in 1..Len(fetch_log) : i < j /\ fetch_log[i] = u1 /\ fetch_log[j] = u2
    THEN u2 ELSE u1

\* C9 as stated: such a crawl ends with exactly two files, three URLs visited and
\* an empty frontier, whatever the titles and bodies of the two pages
C9_TwoArtifactsAlways ==
    pc = "done" =>
        \A u1, u2 \in visited_urls :
            TwoContentPages(u1, u2) =>
                /\ Cardinality(files) = 2
                /\ Cardinality(visited_urls) = 3
                /\ url_queue = <<>>

\* C9, amended: such a crawl ends with three URLs visited and an empty frontier,
\* and with exactly two files if the two titles give different file names; if
\* they give the same name, one file is left, that of the page fetched last
C9_TwoArtifactsUnlessSameName ==
    pc = "done" =>
        \A u1, u2 \in visited_urls :
            TwoContentPages(u1, u2) =>
                /\ Cardinality(visited_urls) = 3
                /\ url_queue = <<>>
                /\ \A f \in files : FullyWritten(f)
                /\ IF SavedAs(u1) # SavedAs(u2)
                   THEN {f.url : f \in files} = {u1, u2} /\ Cardinality(files) = 2
                   ELSE {f.url : f \in files} = {FetchedLast(u1, u2)}
                           /\ Cardinality(files) = 1

\* the crawl of the root page and two content pages is over, with two files
C9_Witness ==
    /\ pc = "done"
    /\ TwoContentPages(URLA, URLX)
    /\ Cardinality(files) = 2

\* the same crawl where the two pages got one file name and the file left holds
\* the title "A - B"
C9_WitnessSameName ==
    /\ pc = "done"
    /\ TwoContentPages(URLA, URLX)
    /\ \E f \in files : f.chunks[1] # FileChunks(TitleAB, <<>>, <<>>)[1]
    /\ SavedAs(URLA) = SavedAs(URLX)

\* C10: after an interrupt, at any point of the crawl, every file is fully written
\* (header, separator and body) or was not begun
C10_NoPartialArtifact ==
    pc = "interrupted" => \A f \in files : FullyWritten(f)

\* C11: on an interruption at any point of the crawl main prints the number of
\* URLs visited so far and the process ends with status 0
C11_InterruptReportsCount ==
    pc = "interrupted" =>
        /\ summary.count = Cardinality(visited_urls)
        /\ summary.exit_status = 0

\* what holds of C11: the interruption is printed and the process ends with
\* status 0
C11_InterruptExitsZero ==
    pc = "interrupted" =>
        /\ summary.line = "interrupted"
        /\ summary.exit_status = 0

\* C12: when an exception other than an interruption leaves the crawl loop, main
\* prints the error and the process ends with a status that is not 0
C12_FailureExitsNonZero ==
    pc = "failed" =>
        /\ summary.line = "failed"
        /\ summary.exit_status # 0

\* what holds of C12: the error is printed
C12_FailureIsReported ==
    pc = "failed" => summary.line = "failed"

\* the pages parsed that had no target div
NoRegionPages == {c \in crawled : c.kind # "failed" /\ ~c.region}

\* C13 as stated: a page without the target div is never classified as a content
\* page, gets no file, and its link extraction returns nothing
C13_NoRegionNoContentNoLinks ==
    \A c \in NoRegionPages :
        /\ c.kind # "content"
        /\ \A f \in files : f.url # c.url
        /\ c.anchors = {}
        /\ (pc = "ret" /\ current_url = c.url) => child_links = <<>>

\* C13, amended: a page without the target div gives no child links; it gets a
\* file only when the classifier, looking at the whole document, took it for a
\* content page
C13_NoRegionNoLinks ==
    \A c \in NoRegionPages :
        /\ c.anchors = {}
        /\ (pc = "ret" /\ current_url = c.url) => child_links = <<>>
        /\ (\E f \in files : f.url = c.url) => c.kind = "content"

\* a page without the target div and with a link was taken for a navigation
\* page, another was taken for a content page and its file written
C13_Witness ==
    /\ pc = "done"
    /\ \E c \in NoRegionPages : c.kind = "navigation"
    /\ \E c \in NoRegionPages :
          /\ c.kind = "content"
          /\ \E f \in files : f.url = c.url /\ FullyWritten(f)

\* C14: a page classified as content whose extracted body is blank gets no file
\* (none is created, none is cut), no failure is recorded for it, and it returns
\* no children
C14_BlankBodyIsSkipped ==
    /\ [](pc = "open" => Strip(page.content) # <<>>)
    /\ [](save_result = "skipped" =>
             /\ IsContentPage(current_url)
             /\ current_url \notin FailedURLs
             /\ \A f \in files : f.url # current_url
             /\ child_links = <<>>)
    /\ [][(pc = "fetch" /\ save_result' = "skipped") =>
             /\ files' = files
             /\ saving' = NoOpenFile
             /\ pc' = "ret"]_vars

\* process_page returns from a page without the target div that was classified
\* as content and whose save was skipped, while a file written earlier is there
C14_Witness ==
    /\ pc = "ret"
    /\ save_result = "skipped"
    /\ \E c \in NoRegionPages : c.url = current_url /\ c.kind = "content"
    /\ \E f \in files : FullyWritten(f)

\* C15: every URL extract_links returns has the origin of base_url, so no URL of
\* another origin is ever returned, enqueued or fetched
C15_LinksHaveBaseOrigin ==
    \A u \in Range(child_links) \cup Range(url_queue) \cup Range(fetch_log) :
        SameOrigin(u)

\* what holds of C15: every URL returned, enqueued or fetched begins with the
\* text of base_url
C15_LinksHaveBasePrefix ==
    \A u \in Range(child_links) \cup Range(url_queue) \cup Range(fetch_log) :
        SameDomain(u)

\* a paragraph the spec calls substantial: its trimmed text is not empty, and it
\* has no hyperlink or its text is more than 10 characters longer than the text
\* of its hyperlink
Substantial(p) ==
    /\ Strip(TextOf(p)) # <<>>
    /\ HasA(p) => Len(TextOf(p)) > Len(FirstAText(p)) + 10

\* the substantial paragraphs in scope: those of the target div, or of the whole
\* document without it
SubstantialInScope(s) ==
    SelectSeq(s.els, LAMBDA el : /\ el.tag = "p"
                                 /\ s.main => el.in = "main"
                                 /\ Substantial(el))

\* at least 2 substantial paragraphs in scope, with more than 150 characters in all
Qualifies(s) ==
    LET ps == SubstantialInScope(s)
    IN  /\ Len(ps) >= 2
        /\ Sum([i \in 1..Len(ps) |-> Len(TextOf(ps[i]))]) > 150

\* the page of the target div with these paragraphs
RegionPage(kinds) ==
    [EmptySoup EXCEPT !.main = TRUE,
                      !.els = [i \in 1..Len(kinds) |-> El("p", "main", kinds[i])]]

Prose80 == <<Piece(Rep("x", ProseLength))>>
Caption == <<Anchor(<<"R","e","a","d"," ","m","o","r","e">>, HrefX)>>

\* C16: has_significant_text is true exactly of the pages that qualify; two
\* link-free paragraphs of 80 characters are content, one is not, and a
\* paragraph that is a link caption is not counted
C16_ClassifierThreshold ==
    (call.fn = "has_significant_text" /\ result.returned) =>
        /\ result.value = Qualifies(call.soup)
        /\ call.soup = RegionPage(<<Prose80, Prose80>>) => result.value = TRUE
        /\ call.soup = RegionPage(<<Prose80>>) => result.value = FALSE
        /\ call.soup = RegionPage(<<Prose80, Caption>>) => result.value = FALSE
        /\ call.soup = RegionPage(<<Prose80, Caption, Prose80>>) => result.value = TRUE

\* the classifier took a page of 75 and 76 characters of prose and a link caption
\* for a content page
C16_Witness ==
    /\ call.fn = "has_significant_text"
    /\ call.soup = RegionPage(<<<<Piece(Rep("x", 75))>>, Caption, <<Piece(Rep("x", 76))>>>>)
    /\ result = Returned(TRUE)

\* the length of the part of a file name before its extension of 4 characters
StemLength(filename) == Len(filename) - 4

\* how many characters of a title are left by the two substitutions: those that
\* are neither invalid nor white space nor dash, and one for every run of white
\* space and dashes (invalid characters inside a run do not end it)
LeftOf(title) ==
    LET n      == Len(title)
        plain  == {i \in 1..n : title[i] \notin InvalidChars \cup SpaceOrDash}
        starts == {i \in 1..n :
                     /\ title[i] \in SpaceOrDash
                     /\ ~\E j \in 1..(i - 1) :
                           /\ title[j] \in SpaceOrDash
                           /\ \A k \in (j + 1)..(i - 1) : title[k] \in InvalidChars}
    IN  Cardinality(plain) + Cardinality(starts)

\* C17 as stated: the name clean_filename returns for a title of 500 characters
\* has a stem of exactly 100 characters
C17_StemIsExactly100 ==
    (call.fn = "clean_filename" /\ result.returned /\ Len(call.text) = TitleLength) =>
        StemLength(result.value) = 100

\* C17, amended: the name ends in .txt and its stem has 100 characters when at
\* least 100 are left of the title, and as many as are left otherwise
C17_StemIsAtMost100 ==
    (call.fn = "clean_filename" /\ result.returned) =>
        /\ SubSeq(result.value, Len(result.value) - 3, Len(result.value)) = TxtExtension
        /\ StemLength(result.value) <= 100
        /\ StemLength(result.value) =
              IF LeftOf(call.text) >= 100 THEN 100 ELSE LeftOf(call.text)

\* clean_filename cut a title of 400 spaces and 100 letters, of which 101
\* characters are left, to 100
C17_Witness ==
    /\ call.fn = "clean_filename"
    /\ call.text = TwoPart(" ", 400)
    /\ result.returned
    /\ StemLength(result.value) = 100

\* clean_filename left no character of a title of 500 question marks
C17_WitnessEmptyStem ==
    /\ call.fn = "clean_filename"
    /\ call.text = TwoPart("?", TitleLength)
    /\ result = Returned(TxtExtension)

\* C18: no step of the crawl takes a URL out of the visited set, and a URL comes
\* into it only as the URL process_page was called with, which is the one the
\* loop took from the head of the frontier
C18_VisitedOnlyGrows ==
    [][/\ visited_urls \subseteq visited_urls'
       /\ \A u \in visited_urls' \ visited_urls : pc = "call" /\ u = current_url
       /\ pc' = "call" => (url_queue # <<>> /\ current_url' = Head(url_queue))]_vars

\* the crawl is over: four URLs are visited, a fetch failed, a file was written and
\* a page gave links
C18_Witness ==
    /\ pc = "done"
    /\ Cardinality(visited_urls) = 4
    /\ FailedURLs # {}
    /\ \E f \in files : FullyWritten(f)
    /\ \E c \in crawled : c.kind = "navigation" /\ c.anchors # {}

\* whether the sequence a begins the sequence b
IsPrefix(a, b) == Len(a) <= Len(b) /\ SubSeq(b, 1, Len(a)) = a

\* the index of the first x in the sequence s
FirstIndex(s, x) == CHOOSE i \in 1..Len(s) : s[i] = x /\ \A j \in 1..(i - 1) : s[j] # x

\* the URLs in the order they were enqueued: those fetched, the one taken from
\* the head and not yet fetched, those waiting
EnqueueOrder ==
    fetch_log \o (IF pc \in {"call", "fetch"} THEN <<current_url>> ELSE <<>>) \o url_queue

\* the links the crawl follows: the in-region links that begin with base_url
FollowedLinks == {e \in NavigationLinks : SameDomain(e[2])}

\* the URLs within k links of the root
RECURSIVE Within(_)
Within(k) ==
    IF k = 0 THEN {SeedURL}
    ELSE Within(k - 1) \cup {e[2] : e \in {e \in FollowedLinks : e[1] \in Within(k - 1)}}

\* the link distance of a URL from the root, over the links read so far
Distance(url) == CHOOSE k \in 0..Cardinality(CrawlURLs) :
                     url \in Within(k) /\ \A j \in 0..(k - 1) : url \notin Within(j)

\* C19: URLs are fetched in the order they were first enqueued: the order only
\* grows at its tail, by the new links of the page in the order the page gave
\* them; so URLs are fetched in non-decreasing link distance from the root
C19_FetchedInEnqueueOrder ==
    /\ [][pc' # "interrupted" =>
             /\ IsPrefix(EnqueueOrder, EnqueueOrder')
             /\ EnqueueOrder' # EnqueueOrder =>
                   /\ pc = "ret"
                   /\ \A i, j \in (Len(EnqueueOrder) + 1)..Len(EnqueueOrder') :
                         i < j => FirstIndex(child_links, EnqueueOrder'[i])
                                    < FirstIndex(child_links, EnqueueOrder'[j])]_vars
    /\ [](\A i, j \in 1..Len(fetch_log) :
             i < j => Distance(fetch_log[i]) <= Distance(fetch_log[j]))

\* the crawl is over: the root gave /x before /a, they were fetched in that order,
\* and a URL two links from the root was fetched last
C19_Witness ==
    /\ pc = "done"
    /\ Len(fetch_log) = 4
    /\ fetch_log[2] = URLX
    /\ fetch_log[3] = URLA
    /\ Distance(fetch_log[4]) = 2

\* C20: in recursive_crawl the URL taken from the head of the queue is never in
\* the visited set, so process_page never returns early on it; its call adds
\* exactly that one URL to the set; and, from that point of each iteration on,
\* the visited count equals the number of URLs dequeued (one less between
\* pop(0) and the add of line 127)
C20_OneVisitPerDequeue ==
    /\ [](pc = "call" => /\ current_url \notin visited_urls
                         /\ dequeued = Cardinality(visited_urls) + 1)
    /\ [](pc \in {"loop", "fetch", "open", "write", "ret", "done"} =>
             Cardinality(visited_urls) = dequeued)
    /\ [][(pc = "call" /\ pc' # "interrupted") =>
             /\ pc' = "fetch"
             /\ visited_urls' = visited_urls \cup {current_url}
             /\ Cardinality(visited_urls') = Cardinality(visited_urls) + 1]_vars

\* the crawl is over with four URLs dequeued and visited, although a page linked
\* to itself and /x, fetched after /a, linked back to /a
C20_Witness ==
    /\ pc = "done"
    /\ dequeued = 4
    /\ Cardinality(visited_urls) = 4
    /\ \E c \in crawled : c.url \in c.anchors
    /\ \E c \in crawled : c.url = URLX /\ URLA \in c.anchors
    /\ \E i, j \in 1..Len(fetch_log) : i < j /\ fetch_log[i] = URLA /\ fetch_log[j] = URLX

====
